---------------------------- MODULE Spec2Model ----------------------------
(***************************************************************************)
(* A model of SerialScaleReader (scale.py) and of the way app.py calls it. *)
(*                                                                         *)
(* Python strings are sequences of one-character strings, so that lower(), *)
(* int(), float(), ', '.join() and the search of list_ports.grep() are     *)
(* computed character by character.  A Python value is a record            *)
(*   [t |-> "none" | "str" | "int" | "float", s |-> chars, n, d |-> Int]    *)
(* with n/d the number a numeric value holds (d a power of ten divided by  *)
(* the common divisor).  Times are in hundredths of a second: 0.25 s and   *)
(* 1.5 s and their sums are exact in binary floating point, so integer     *)
(* arithmetic on hundredths computes what the floats compute.              *)
(***************************************************************************)
EXTENDS Integers, Sequences, FiniteSets, TLC

VARIABLES
    serial_reader,   \* self.serial_reader: the attributes of the one serial.Serial object
    wait_time,       \* self.wait_time, in hundredths of a second
    comports,        \* what list_ports.comports() enumerates now (a list of devices)
    call,            \* the last completed call to the settings API: arguments and return value
    pc,              \* per caller: where its read_weight call is
    scale_output,    \* per caller: the local scale_output of its read_weight call
    result,          \* per caller: how its last read_weight call ended
    cycles,          \* per caller: sleeps completed in its read_weight call
    wrote,           \* per caller: read commands it has written in its read_weight call
    line,            \* the opened device: the parameters in effect, or closed
    rx,              \* the input buffer of the opened device (in_waiting = Len(rx))
    pending,         \* what the scale will still send in answer to the last command
    delivered,       \* bytes that reached the input buffer since the device was opened
    answer,          \* all the scale answered since the device was opened
    first_poll,      \* per caller: whether the marker had arrived when its first sleep ended
    after_timeout,   \* per caller: its call before this one returned the timeout message
    served,          \* requests to the settings API served so far, counted up to MaxRequests
    scale,           \* the scale on the line: the longest answer it sends to one command
    asked,           \* for each byte of answer, the caller whose command it answers
    update           \* the update_settings call in progress: its arguments, setting_errors and position

vars == << serial_reader, wait_time, comports, call, pc, scale_output, result,
           cycles, wrote, line, rx, pending, delivered, answer, first_poll, after_timeout,
           served, scale, asked, update >>

-----------------------------------------------------------------------------
(* Python values *)

NoneV == [t |-> "none", s |-> << >>, n |-> 0, d |-> 1]
Str(chars) == [t |-> "str", s |-> chars, n |-> 0, d |-> 1]
IntV(k) == [t |-> "int", s |-> << >>, n |-> k, d |-> 1]
FloatV(num, den) == [t |-> "float", s |-> << >>, n |-> num, d |-> den]

IsNumber(v) == v.t \in {"int", "float"}

\* Python's == on two values: numbers compare by value (1 == 1.0), a string is
\* equal only to the same string.
PyEq(a, b) ==
    IF IsNumber(a) /\ IsNumber(b) THEN a.n * b.d = b.n * a.d
    ELSE a.t = b.t /\ a.s = b.s

\* A test `if x is not None:` in place of `if x:`.
TruthyText(v) == v.t = "str"

\* The truth value `if x:` tests: None and '' are false, other strings true.
Truthy(v) == v.t = "str" /\ Len(v.s) > 0

\* kwargs.get(key): the value, or None when the key is absent.
Get(kwargs, key) == IF key \in DOMAIN kwargs THEN kwargs[key] ELSE NoneV

-----------------------------------------------------------------------------
(* str.lower(), int(str), float(str), ', '.join(list) *)

UpperChars == << "A", "B", "C", "D", "E", "F", "G", "H", "I", "J", "K", "L", "M",
                 "N", "O", "P", "Q", "R", "S", "T", "U", "V", "W", "X", "Y", "Z" >>
LowerChars == << "a", "b", "c", "d", "e", "f", "g", "h", "i", "j", "k", "l", "m",
                 "n", "o", "p", "q", "r", "s", "t", "u", "v", "w", "x", "y", "z" >>
DigitChars == << "0", "1", "2", "3", "4", "5", "6", "7", "8", "9" >>

LowerChar(c) ==
    IF \E i \in 1..Len(UpperChars) : UpperChars[i] = c
    THEN LowerChars[CHOOSE i \in 1..Len(UpperChars) : UpperChars[i] = c]
    ELSE c

Lower(chars) == [i \in 1..Len(chars) |-> LowerChar(chars[i])]

IsDigit(c) == \E i \in 1..Len(DigitChars) : DigitChars[i] = c
DigitVal(c) == (CHOOSE i \in 1..Len(DigitChars) : DigitChars[i] = c) - 1

RECURSIVE LStrip(_)
LStrip(chars) ==
    IF chars # << >> /\ Head(chars) = " " THEN LStrip(Tail(chars)) ELSE chars

RECURSIVE RStrip(_)
RStrip(chars) ==
    IF chars # << >> /\ chars[Len(chars)] = " "
    THEN RStrip(SubSeq(chars, 1, Len(chars) - 1))
    ELSE chars

Strip(chars) == RStrip(LStrip(chars))

HasSign(chars) == chars # << >> /\ Head(chars) \in {"+", "-"}
Unsigned(chars) == IF HasSign(chars) THEN Tail(chars) ELSE chars
SignOf(chars) == IF chars # << >> /\ Head(chars) = "-" THEN -1 ELSE 1

AllDigits(chars) == \A i \in 1..Len(chars) : IsDigit(chars[i])

RECURSIVE DigitsValue(_)
DigitsValue(chars) ==
    IF chars = << >> THEN 0
    ELSE 10 * DigitsValue(SubSeq(chars, 1, Len(chars) - 1)) + DigitVal(chars[Len(chars)])

RECURSIVE Pow10(_)
Pow10(k) == IF k = 0 THEN 1 ELSE 10 * Pow10(k - 1)

RECURSIVE Gcd(_, _)
Gcd(a, b) == IF b = 0 THEN a ELSE Gcd(b, a % b)

\* int(text) for a string: surrounding blanks are dropped, then an optional sign
\* and one or more decimal digits.  ok = FALSE is the ValueError.
ParseInt(chars) ==
    LET body == Unsigned(Strip(chars))
    IN  IF body # << >> /\ AllDigits(body)
        THEN [ok |-> TRUE, v |-> IntV(SignOf(Strip(chars)) * DigitsValue(body))]
        ELSE [ok |-> FALSE, v |-> NoneV]

\* float(text) for a string holding a decimal literal without exponent: blanks
\* dropped, optional sign, digits with at most one point and at least one digit.
\* ok = FALSE is the ValueError.
ParseFloat(chars) ==
    LET body == Unsigned(Strip(chars))
        dots == {i \in 1..Len(body) : body[i] = "."}
        dot == IF dots = {} THEN Len(body) + 1 ELSE CHOOSE i \in dots : TRUE
        whole == SubSeq(body, 1, dot - 1)
        frac == SubSeq(body, dot + 1, Len(body))
        num == DigitsValue(whole \o frac)
        den == Pow10(Len(frac))
        g == Gcd(den, num)
    IN  IF /\ Cardinality(dots) <= 1
           /\ AllDigits(whole) /\ AllDigits(frac)
           /\ Len(whole) + Len(frac) > 0
        THEN [ok |-> TRUE, v |-> FloatV(SignOf(Strip(chars)) * (num \div g), den \div g)]
        ELSE [ok |-> FALSE, v |-> NoneV]

RECURSIVE Join(_, _)
Join(sep, items) ==
    IF items = << >> THEN << >>
    ELSE IF Len(items) = 1 THEN items[1]
    ELSE items[1] \o sep \o Join(sep, Tail(items))

CommaSpace == << ",", " " >>

-----------------------------------------------------------------------------
(* pyserial's constants and the option tables of scale.py.  A table is the *)
(* list of the dict's items in insertion order; repr is str(key).          *)

PARITY_NONE == Str(<< "N" >>)
PARITY_ODD == Str(<< "O" >>)
PARITY_EVEN == Str(<< "E" >>)
PARITY_MARK == Str(<< "M" >>)
PARITY_SPACE == Str(<< "S" >>)
STOPBITS_ONE == IntV(1)
STOPBITS_ONE_POINT_FIVE == FloatV(3, 2)
STOPBITS_TWO == IntV(2)
FIVEBITS == IntV(5)
SIXBITS == IntV(6)
SEVENBITS == IntV(7)
EIGHTBITS == IntV(8)

PARITY_OPTIONS ==
    << [key |-> Str(<< "n", "o", "n", "e" >>), repr |-> << "n", "o", "n", "e" >>, value |-> PARITY_NONE],
       [key |-> Str(<< "o", "d", "d" >>), repr |-> << "o", "d", "d" >>, value |-> PARITY_ODD],
       [key |-> Str(<< "e", "v", "e", "n" >>), repr |-> << "e", "v", "e", "n" >>, value |-> PARITY_EVEN],
       [key |-> Str(<< "m", "a", "r", "k" >>), repr |-> << "m", "a", "r", "k" >>, value |-> PARITY_MARK],
       [key |-> Str(<< "s", "p", "a", "c", "e" >>), repr |-> << "s", "p", "a", "c", "e" >>, value |-> PARITY_SPACE] >>

STOP_BITS_OPTIONS ==
    << [key |-> IntV(1), repr |-> << "1" >>, value |-> STOPBITS_ONE],
       [key |-> FloatV(3, 2), repr |-> << "1", ".", "5" >>, value |-> STOPBITS_ONE_POINT_FIVE],
       [key |-> IntV(2), repr |-> << "2" >>, value |-> STOPBITS_TWO] >>

BYTE_SIZE_OPTIONS ==
    << [key |-> IntV(5), repr |-> << "5" >>, value |-> FIVEBITS],
       [key |-> IntV(6), repr |-> << "6" >>, value |-> SIXBITS],
       [key |-> IntV(7), repr |-> << "7" >>, value |-> SEVENBITS],
       [key |-> IntV(8), repr |-> << "8" >>, value |-> EIGHTBITS] >>

\* `x in options` and `options[x]` of a dict.
InOptions(options, x) == \E i \in 1..Len(options) : PyEq(options[i].key, x)
Lookup(options, x) == options[CHOOSE i \in 1..Len(options) : PyEq(options[i].key, x)].value

Quoted(chars) == << "'" >> \o chars \o << "'" >>

\* 'text {}'.format(arg): the template and the text put in its place.
Format(template, arg) == [template |-> template, arg |-> arg]

-----------------------------------------------------------------------------
(* The host's serial devices and list_ports *)

COM1 == << "C", "O", "M", "1" >>
COM2 == << "C", "O", "M", "2" >>

Device1 == [device |-> COM1, description |-> << "U", "a", "r", "t" >>, hwid |-> << "A", "1" >>]
Device2 == [device |-> COM2, description |-> << "U", "s", "b" >>, hwid |-> << "B", "2" >>]

\* The lists comports() can return.
PortLists == { << Device1 >>, << Device1, Device2 >> }

Contains(hay, needle) ==
    \E i \in 0..(Len(hay) - Len(needle)) : SubSeq(hay, i + 1, i + Len(needle)) = needle

\* re.compile(regexp, re.I) fails (re.error) on a '[' that no ']' closes.  The
\* texts given as port hold, besides '[', only letters and digits, which a
\* regular expression matches literally.
PatternFails(chars) ==
    /\ \E i \in 1..Len(chars) : chars[i] = "["
    /\ ~ \E i \in 1..Len(chars) : chars[i] = "]"

\* list(list_ports.grep(regexp)): the devices whose name, description or
\* hardware id the pattern is found in, letter case ignored.
Grep(ports, chars) ==
    SelectSeq(ports, LAMBDA p :
        \/ Contains(Lower(p.device), Lower(chars))
        \/ Contains(Lower(p.description), Lower(chars))
        \/ Contains(Lower(p.hwid), Lower(chars)))

DeviceNames(ports) == [i \in 1..Len(ports) |-> ports[i].device]

-----------------------------------------------------------------------------
(* SerialScaleReader: construction and the settings API *)

wait_interval_seconds == 25     \* 0.25 s
max_wait_time_seconds == 150    \* 1.5 s
DefaultBaudRate == 9600

read_weight_command == << "W", "CR" >>
end_of_weight_char == "ETX"

\* serial.Serial() and the five assignments of __init__.  baudrate and stopbits
\* are the attributes pyserial configures the device from; __init__ and
\* update_settings assign baud_rate and stop_bits, which pyserial does not know.
InitSerialReader ==
    [ port |-> Str(COM1),
      baud_rate |-> IntV(DefaultBaudRate),
      parity |-> PARITY_EVEN,
      stop_bits |-> STOPBITS_ONE,
      bytesize |-> SEVENBITS,
      baudrate |-> IntV(DefaultBaudRate),
      stopbits |-> STOPBITS_ONE ]

get_settings(sr) ==
    [ port |-> sr.port,
      baud_rate |-> sr.baud_rate,
      parity |-> sr.parity,
      stop_bits |-> sr.stop_bits,
      byte_size |-> sr.bytesize ]

NoErrors == [k \in {} |-> NoneV]
SetError(errors, key, given, message) ==
    [k \in DOMAIN errors \cup {key} |->
        IF k = key THEN [given_value |-> given, error |-> message] ELSE errors[k]]

\* The state of an update_settings call between two fields: the Serial object,
\* setting_errors, and whether an exception has left the function (no field
\* after it is looked at).
StartUpdate(sr) == [sr |-> sr, errors |-> NoErrors, raised |-> FALSE]

PortMessage(ports) ==
    Format("Invalid port. Detected ports: {}", Join(CommaSpace, DeviceNames(ports)))

UpdatePort(st, kwargs, ports) ==
    LET port == Get(kwargs, "port")
    IN  IF ~Truthy(port) THEN st
        ELSE IF PatternFails(port.s) THEN [st EXCEPT !.raised = TRUE]
        ELSE IF Grep(ports, port.s) # << >> THEN [st EXCEPT !.sr.port = port]
        ELSE [st EXCEPT !.errors = SetError(@, "port", port, PortMessage(ports))]

UpdateBaudRate(st, kwargs) ==
    LET baud_rate == Get(kwargs, "baud_rate")
    IN  IF st.raised \/ ~Truthy(baud_rate) THEN st
        ELSE IF ParseInt(baud_rate.s).ok
        THEN [st EXCEPT !.sr.baud_rate = ParseInt(baud_rate.s).v]
        ELSE [st EXCEPT !.errors =
                SetError(@, "baud_rate", baud_rate, Format("Baud rate must be integer", << >>))]

ParityMessage ==
    Format("Parity must be one of the following: {}",
           Join(CommaSpace, [i \in 1..Len(PARITY_OPTIONS) |-> Quoted(PARITY_OPTIONS[i].repr)]))

UpdateParity(st, kwargs) ==
    LET given == Get(kwargs, "parity")
        parity == Str(Lower(given.s))
    IN  IF st.raised \/ ~Truthy(given) THEN st
        ELSE IF InOptions(PARITY_OPTIONS, parity)
        THEN [st EXCEPT !.sr.parity = Lookup(PARITY_OPTIONS, parity)]
        ELSE [st EXCEPT !.errors = SetError(@, "parity", parity, ParityMessage)]

StopBitsMessage ==
    Format("Stop bits must be one of the following: {}",
           Join(CommaSpace, [i \in 1..Len(STOP_BITS_OPTIONS) |-> STOP_BITS_OPTIONS[i].repr]))

UpdateStopBits(st, kwargs) ==
    LET given == Get(kwargs, "stop_bits")
        stop_bits == IF ParseFloat(given.s).ok THEN ParseFloat(given.s).v ELSE given
    IN  IF st.raised \/ ~Truthy(given) THEN st
        ELSE IF InOptions(STOP_BITS_OPTIONS, stop_bits)
        THEN [st EXCEPT !.sr.stop_bits = Lookup(STOP_BITS_OPTIONS, stop_bits)]
        ELSE [st EXCEPT !.errors = SetError(@, "stop_bits", stop_bits, StopBitsMessage)]

ByteSizeMessage ==
    Format("Byte size must be one of the following: {}",
           Join(CommaSpace, [i \in 1..Len(BYTE_SIZE_OPTIONS) |-> BYTE_SIZE_OPTIONS[i].repr]))

UpdateByteSize(st, kwargs) ==
    LET given == Get(kwargs, "byte_size")
        byte_size == IF ParseInt(given.s).ok THEN ParseInt(given.s).v ELSE given
    IN  IF st.raised \/ ~Truthy(given) THEN st
        ELSE IF InOptions(BYTE_SIZE_OPTIONS, byte_size)
        THEN [st EXCEPT !.sr.bytesize = Lookup(BYTE_SIZE_OPTIONS, byte_size)]
        ELSE [st EXCEPT !.errors = SetError(@, "byte_size", byte_size, ByteSizeMessage)]

\* update_settings(**kwargs) on the Serial object sr with the devices `ports`
\* attached: the Serial object afterwards, the returned setting_errors, and
\* whether the call raised instead of returning.
update_settings(sr, kwargs, ports) ==
    UpdateByteSize(
        UpdateStopBits(
            UpdateParity(
                UpdateBaudRate(
                    UpdatePort(StartUpdate(sr), kwargs, ports),
                    kwargs),
                kwargs),
            kwargs),
        kwargs)

\* update_and_get_settings(**kwargs): what the call leaves and returns.
update_and_get_settings(sr, kwargs, ports) ==
    LET u == update_settings(sr, kwargs, ports)
    IN  [ sr |-> u.sr,
          raised |-> u.raised,
          errors |-> u.errors,
          settings |-> get_settings(u.sr) ]

-----------------------------------------------------------------------------
(* The serial line and the scale behind it *)

MaxResponse == 2    \* the longest answer the scale sends to one command

\* The bytes on the line: digits, the marker 0x03, and 0xE9, a byte above 0x7F.
Digits == << "1", "2", "3", "4", "5" >>
DigitSet == {Digits[i] : i \in 1..Len(Digits)}
Bytes == DigitSet \cup {"ETX", "xE9"}

IsDigitByte(byte) == byte \in DigitSet

\* The answers of the scale: any bytes, the digits among them numbered in the
\* order they are sent, which makes a reordering of the data visible.
Answers(longest) ==
    { r \in UNION {[1..n -> Bytes] : n \in 0..longest} :
        SelectSeq(r, IsDigitByte) = SubSeq(Digits, 1, Len(SelectSeq(r, IsDigitByte))) }

Responses == Answers(MaxResponse)

\* A decode that lets every byte through: decode("utf-8", errors="replace").
DecodesAny(byte) == TRUE

\* bytes.decode("utf-8") of one byte: a byte below 0x80 is its character, any
\* other byte alone is no valid text (UnicodeDecodeError).
Decodes(byte) == byte # "xE9"

ClosedLine ==
    [open |-> FALSE, port |-> NoneV, baudrate |-> NoneV, bytesize |-> NoneV,
     parity |-> NoneV, stopbits |-> NoneV]

\* Serial.open(): the device is configured from the attributes pyserial reads.
OpenLine(sr) ==
    [open |-> TRUE, port |-> sr.port, baudrate |-> sr.baudrate, bytesize |-> sr.bytesize,
     parity |-> sr.parity, stopbits |-> sr.stopbits]

\* open() can succeed only on the name of an attached device.
CanOpen(sr, ports) == \E i \in 1..Len(ports) : ports[i].device = sr.port.s

OpenFault == << "o", "p", "e", "n" >>
WriteFault == << "w", "r", "i", "t", "e" >>
ReadFault == << "r", "e", "a", "d" >>
NotOpenFault == << "c", "l", "o", "s", "e", "d" >>

-----------------------------------------------------------------------------
(* read_weight *)

NoException == [type |-> "none", desc |-> << >>]
SerialException(desc) == [type |-> "SerialException", desc |-> desc]
UnicodeDecodeError == [type |-> "UnicodeDecodeError", desc |-> << >>]

\* How a read_weight call ended: the string returned, or the exception that
\* left the function, and the exception that caused it, if one did.
NoResult == [kind |-> "none", value |-> Format("", << >>), cause |-> NoException]
WeightResult(chars) ==
    [kind |-> "weight", value |-> Format("{}", chars), cause |-> NoException]
TimeoutResult ==
    [kind |-> "timeout",
     value |-> Format("Scale response took too long, check connection and reconsider max_wait_time_seconds", << >>),
     cause |-> NoException]

\* Except with a clause that catches nothing.
ExceptNothing(exc) == [kind |-> "raised", value |-> Format(exc.type, exc.desc), cause |-> exc]

\* The except clause: a SerialException becomes the returned 'Error: ...'
\* string, any other exception leaves read_weight.
Except(exc) ==
    IF exc.type = "SerialException"
    THEN [kind |-> "error", value |-> Format("Error: {}", exc.desc), cause |-> exc]
    ELSE [kind |-> "raised", value |-> Format(exc.type, exc.desc), cause |-> exc]

NoSettings ==
    [port |-> NoneV, baud_rate |-> NoneV, parity |-> NoneV, stop_bits |-> NoneV,
     byte_size |-> NoneV]
NoCall == [op |-> "none", kwargs |-> NoErrors, ports |-> << >>, before |-> NoSettings,
           raised |-> FALSE, errors |-> NoErrors, settings |-> NoSettings]

\* No update_settings call is in progress.
NoUpdate == [at |-> "idle", kwargs |-> NoErrors, errors |-> NoErrors, raised |-> FALSE,
             before |-> NoSettings, ports |-> << >>]

Callers == DOMAIN pc
AllIdle == \A c \in Callers : pc[c] = "idle"

\* The timeout test of the poll loop, what the timeout branch leaves in
\* wait_time, and wait_time after one sleep.
TimedOut(elapsed) == elapsed > max_wait_time_seconds
AfterTimeoutKept(elapsed) == elapsed      \* AfterTimeout without the reset
AfterTimeout(elapsed) == 0
SleptNot(elapsed) == elapsed              \* Slept without the addition
SleptBack(elapsed) == elapsed - wait_interval_seconds     \* Slept with -= for +=
Slept(elapsed) == elapsed + wait_interval_seconds

\* The sleeps of one call are counted up to one more than a call can make.
CyclesCap == max_wait_time_seconds \div wait_interval_seconds + 2

\* scale_output = this_byte.decode("utf-8"), an assignment in place of +=.
AccumulateLast(output, byte) == << byte >>

\* scale_output += this_byte.decode("utf-8")
Accumulate(output, byte) == Append(output, byte)

HasMarker(bytes) == \E i \in 1..Len(bytes) : bytes[i] = end_of_weight_char

\* Leave without __exit__: the device stays as it is.
LeaveOpen(c, res) ==
    /\ pc' = [pc EXCEPT ![c] = "idle"]
    /\ result' = [result EXCEPT ![c] = res]
    /\ UNCHANGED << line, rx, pending >>

\* Leaving the with block (a return or an exception inside it): __exit__ closes
\* the device, and what the scale still sends is lost.
Leave(c, res) ==
    /\ pc' = [pc EXCEPT ![c] = "idle"]
    /\ result' = [result EXCEPT ![c] = res]
    /\ line' = ClosedLine
    /\ rx' = << >>
    /\ pending' = << >>

\* `with self.serial_reader as open_reader`: __enter__ opens the device unless
\* it is open already.  A failed open leaves the function through the except
\* clause; the with block was never entered.
ReadEnter(c) ==
    /\ pc[c] = "idle"
    /\ after_timeout' = [after_timeout EXCEPT ![c] = (result[c].kind = "timeout")]
    /\ cycles' = [cycles EXCEPT ![c] = 0]
    /\ wrote' = [wrote EXCEPT ![c] = 0]
    /\ first_poll' = [first_poll EXCEPT ![c] = "pending"]
    /\ scale_output' = [scale_output EXCEPT ![c] = << >>]
    /\ call' = NoCall
    /\ \/ /\ line.open
          /\ pc' = [pc EXCEPT ![c] = "write"]
          /\ result' = [result EXCEPT ![c] = NoResult]
          /\ UNCHANGED << line, rx, pending, delivered, answer, asked >>
       \/ /\ ~line.open
          /\ CanOpen(serial_reader, comports)
          /\ pc' = [pc EXCEPT ![c] = "write"]
          /\ result' = [result EXCEPT ![c] = NoResult]
          /\ line' = OpenLine(serial_reader)
          /\ rx' = << >>
          /\ pending' = << >>
          /\ delivered' = << >>
          /\ answer' = << >>
          /\ asked' = << >>
       \/ /\ ~line.open
          /\ pc' = [pc EXCEPT ![c] = "idle"]
          /\ result' = [result EXCEPT ![c] = Except(SerialException(OpenFault))]
          /\ delivered' = << >>
          /\ answer' = << >>
          /\ asked' = << >>
          /\ UNCHANGED << line, rx, pending >>
    /\ UNCHANGED << serial_reader, wait_time, comports, served, scale, update >>

\* scale_output = '' and open_reader.write(self.read_weight_command); the
\* scale answers a command it receives with one of its answers.
ReadWrite(c) ==
    /\ pc[c] = "write"
    /\ scale_output' = [scale_output EXCEPT ![c] = << >>]
    /\ \/ /\ line.open
          /\ \E reply \in Answers(scale.longest) :
                /\ pending' = pending \o reply
                /\ answer' = answer \o reply
                /\ asked' = asked \o [i \in 1..Len(reply) |-> c]
          /\ wrote' = [wrote EXCEPT ![c] = @ + 1]
          /\ pc' = [pc EXCEPT ![c] = "check"]
          /\ UNCHANGED << result, line, rx >>
       \/ /\ Leave(c, Except(SerialException(IF line.open THEN WriteFault ELSE NotOpenFault)))
          /\ UNCHANGED << wrote, answer, asked >>
    /\ UNCHANGED << serial_reader, wait_time, comports, call, cycles, delivered, first_poll,
                    after_timeout, served, scale, update >>

\* if self.wait_time > self.max_wait_time_seconds: reset and return the message
ReadCheck(c) ==
    /\ pc[c] = "check"
    /\ IF TimedOut(wait_time)
       THEN /\ wait_time' = AfterTimeout(wait_time)
            /\ Leave(c, TimeoutResult)
       ELSE /\ pc' = [pc EXCEPT ![c] = "sleep"]
            /\ UNCHANGED << wait_time, result, line, rx, pending >>
    /\ UNCHANGED << serial_reader, comports, call, scale_output, cycles, wrote, delivered,
                    answer, first_poll, after_timeout, served, scale, asked, update >>

\* time.sleep(self.wait_interval_seconds); self.wait_time += self.wait_interval_seconds
ReadSleep(c) ==
    /\ pc[c] = "sleep"
    /\ wait_time' = Slept(wait_time)
    /\ cycles' = [cycles EXCEPT ![c] = IF @ < CyclesCap THEN @ + 1 ELSE @]
    /\ first_poll' = [first_poll EXCEPT ![c] =
                        IF cycles[c] > 0 THEN @
                        ELSE IF HasMarker(delivered) THEN "on_time" ELSE "late"]
    /\ pc' = [pc EXCEPT ![c] = "drain"]
    /\ UNCHANGED << serial_reader, comports, call, scale_output, result, wrote, line, rx,
                    pending, delivered, answer, after_timeout, served, scale, asked, update >>

\* One turn of `while open_reader.in_waiting > 0`: nothing waiting goes back to
\* the timeout test; else read(1), return at the marker, or decode and append.
ReadDrain(c) ==
    /\ pc[c] = "drain"
    /\ \/ /\ line.open
          /\ rx = << >>
          /\ pc' = [pc EXCEPT ![c] = "check"]
          /\ UNCHANGED << scale_output, result, line, rx, pending >>
       \/ /\ line.open
          /\ rx # << >>
          /\ IF Head(rx) = end_of_weight_char
             THEN /\ Leave(c, WeightResult(scale_output[c]))
                  /\ UNCHANGED scale_output
             ELSE IF Decodes(Head(rx))
             THEN /\ scale_output' = [scale_output EXCEPT ![c] = Accumulate(@, Head(rx))]
                  /\ rx' = Tail(rx)
                  /\ UNCHANGED << pc, result, line, pending >>
             ELSE /\ Leave(c, Except(UnicodeDecodeError))
                  /\ UNCHANGED scale_output
       \/ /\ Leave(c, Except(SerialException(IF line.open THEN ReadFault ELSE NotOpenFault)))
          /\ UNCHANGED scale_output
    /\ UNCHANGED << serial_reader, wait_time, comports, call, cycles, wrote, delivered,
                    answer, first_poll, after_timeout, served, scale, asked, update >>

\* The scale sends the next byte of its answer; it arrives in the input buffer.
ScaleSend ==
    /\ line.open
    /\ pending # << >>
    /\ rx' = Append(rx, Head(pending))
    /\ delivered' = Append(delivered, Head(pending))
    /\ pending' = Tail(pending)
    /\ UNCHANGED << serial_reader, wait_time, comports, call, pc, scale_output, result,
                    cycles, wrote, line, answer, first_poll, after_timeout, served, scale, asked, update >>

-----------------------------------------------------------------------------
(* The settings API as app.py calls it, and the host *)

UpdateAndGetSettings(kwargs) ==
    LET r == update_and_get_settings(serial_reader, kwargs, comports)
    IN  /\ serial_reader' = r.sr
        /\ call' = [op |-> "update_and_get_settings", kwargs |-> kwargs, ports |-> comports,
                    before |-> get_settings(serial_reader), raised |-> r.raised,
                    errors |-> r.errors,
                    settings |-> IF r.raised THEN NoSettings ELSE r.settings]
        /\ UNCHANGED << wait_time, comports, pc, scale_output, result, cycles, wrote,
                        line, rx, pending, delivered, answer, first_poll, after_timeout,
                        scale, asked, update >>

GetSettings ==
    /\ call' = [op |-> "get_settings", kwargs |-> NoErrors, ports |-> comports,
                before |-> get_settings(serial_reader), raised |-> FALSE,
                errors |-> NoErrors, settings |-> get_settings(serial_reader)]
    /\ UNCHANGED << serial_reader, wait_time, comports, pc, scale_output, result, cycles,
                    wrote, line, rx, pending, delivered, answer, first_poll, after_timeout,
                    served, scale, asked, update >>

\* update_settings as a thread of its own runs it: one field after the other,
\* other threads running in between.
FieldOrder == << "port", "baud_rate", "parity", "stop_bits", "byte_size" >>
FieldIndex(k) == CHOOSE i \in 1..Len(FieldOrder) : FieldOrder[i] = k
NextField(k) ==
    IF FieldIndex(k) = Len(FieldOrder) THEN "return" ELSE FieldOrder[FieldIndex(k) + 1]

\* The block of a field that assigns nothing to the Serial object in use.
SkipField(k, st, kwargs, ports) == st

\* The block of update_settings for field k.
ApplyField(k, st, kwargs, ports) ==
    CASE k = "port" -> UpdatePort(st, kwargs, ports)
      [] k = "baud_rate" -> UpdateBaudRate(st, kwargs)
      [] k = "parity" -> UpdateParity(st, kwargs)
      [] k = "stop_bits" -> UpdateStopBits(st, kwargs)
      [] k = "byte_size" -> UpdateByteSize(st, kwargs)

\* setting_errors = {}
UpdateBegin(kwargs) ==
    /\ update.at = "idle"
    /\ update' = [at |-> FieldOrder[1], kwargs |-> kwargs, errors |-> NoErrors,
                  raised |-> FALSE, before |-> get_settings(serial_reader),
                  ports |-> comports]
    /\ UNCHANGED << serial_reader, wait_time, comports, call, pc, scale_output, result,
                    cycles, wrote, line, rx, pending, delivered, answer, first_poll,
                    after_timeout, served, scale, asked >>

\* What the call is recorded as when an exception leaves it.
RaisedCall ==
    [op |-> "update_and_get_settings", kwargs |-> update.kwargs, ports |-> update.ports,
     before |-> update.before, raised |-> TRUE, errors |-> NoErrors, settings |-> NoSettings]

\* The block of one field.  pyserial's setters act on an open device: assigning
\* port closes it and opens the new one, assigning parity or bytesize
\* reconfigures it; baud_rate and stop_bits are no attributes pyserial knows.
UpdateField ==
    /\ update.at \notin {"idle", "return"}
    /\ LET k == update.at
           st == ApplyField(k, [sr |-> serial_reader, errors |-> update.errors,
                                raised |-> FALSE], update.kwargs, comports)
           assigned == /\ Truthy(Get(update.kwargs, k))
                       /\ ~st.raised
                       /\ st.errors = update.errors
           goes_on == [update EXCEPT !.at = NextField(k), !.errors = st.errors]
       IN  /\ serial_reader' = st.sr
           /\ IF st.raised
              THEN /\ update' = NoUpdate
                   /\ call' = RaisedCall
                   /\ UNCHANGED << line, rx, pending, delivered, answer, asked >>
              ELSE IF k = "port" /\ assigned /\ line.open
              THEN \/ /\ CanOpen(st.sr, comports)
                      /\ line' = OpenLine(st.sr)
                      /\ rx' = << >>
                      /\ pending' = << >>
                      /\ delivered' = << >>
                      /\ answer' = << >>
                      /\ asked' = << >>
                      /\ update' = goes_on
                      /\ UNCHANGED call
                   \/ /\ line' = ClosedLine
                      /\ rx' = << >>
                      /\ pending' = << >>
                      /\ update' = NoUpdate
                      /\ call' = RaisedCall
                      /\ UNCHANGED << delivered, answer, asked >>
              ELSE /\ line' = IF line.open /\ assigned /\ k = "parity"
                              THEN [line EXCEPT !.parity = st.sr.parity]
                              ELSE IF line.open /\ assigned /\ k = "byte_size"
                              THEN [line EXCEPT !.bytesize = st.sr.bytesize]
                              ELSE line
                   /\ update' = goes_on
                   /\ UNCHANGED << call, rx, pending, delivered, answer, asked >>
    /\ UNCHANGED << wait_time, comports, pc, scale_output, result, cycles, wrote,
                    first_poll, after_timeout, served, scale >>

\* return setting_errors, and get_settings() in update_and_get_settings
UpdateReturn ==
    /\ update.at = "return"
    /\ call' = [op |-> "update_and_get_settings", kwargs |-> update.kwargs,
                ports |-> update.ports, before |-> update.before, raised |-> FALSE,
                errors |-> update.errors, settings |-> get_settings(serial_reader)]
    /\ update' = NoUpdate
    /\ UNCHANGED << serial_reader, wait_time, comports, pc, scale_output, result, cycles,
                    wrote, line, rx, pending, delivered, answer, first_poll,
                    after_timeout, served, scale, asked >>

\* A serial device is attached to or removed from the host.
HotPlug ==
    /\ \E ports \in PortLists \ {comports} : comports' = ports
    /\ UNCHANGED << serial_reader, wait_time, call, pc, scale_output, result, cycles,
                    wrote, line, rx, pending, delivered, answer, first_poll, after_timeout,
                    served, scale, asked, update >>

-----------------------------------------------------------------------------
(* The requests made of the settings API: texts as query or form parameters *)

T_COM == << "C", "O", "M" >>
T_XYZ == << "X", "Y", "Z" >>
T_Bracket == << "[" >>
T_19200 == << "1", "9", "2", "0", "0" >>
T_0 == << "0" >>
T_12a == << "1", "2", "a" >>
T_none == << "n", "o", "n", "e" >>
T_ODD == << "O", "D", "D" >>
T_Even == << "E", "v", "e", "n" >>
T_mark == << "m", "a", "r", "k" >>
T_space == << "s", "p", "a", "c", "e" >>
T_Foo == << "F", "o", "o" >>
T_1 == << "1" >>
T_1p5 == << "1", ".", "5" >>
T_2p0 == << "2", ".", "0" >>
T_3 == << "3" >>
T_x == << "x" >>
T_5 == << "5" >>
T_6 == << "6" >>
T_7 == << "7" >>
T_8 == << "8" >>
T_9 == << "9" >>
T_7p0 == << "7", ".", "0" >>
T_kg == << "k", "g" >>

MaxRequests == 2    \* requests to the settings API in one run of SpecSettings

Keys == {"port", "baud_rate", "parity", "stop_bits", "byte_size"}

Texts ==
    [ port |-> {<< >>, COM2, T_COM, T_XYZ, T_Bracket},
      baud_rate |-> {T_19200, T_0, T_12a},
      parity |-> {<< >>, T_none, T_ODD, T_Even, T_mark, T_space, T_Foo},
      stop_bits |-> {T_1, T_1p5, T_2p0, T_3, T_x},
      byte_size |-> {T_5, T_6, T_7, T_8, T_9, T_7p0} ]

GoodText ==
    [ port |-> COM1, baud_rate |-> T_19200, parity |-> T_ODD, stop_bits |-> T_1p5,
      byte_size |-> T_8 ]

BadTexts ==
    [ port |-> {T_XYZ, T_Bracket}, baud_rate |-> {T_12a}, parity |-> {T_Foo},
      stop_bits |-> {T_3}, byte_size |-> {T_9} ]

\* Mappings of one recognised key, of a valid value of one key with a rejected
\* value of another, the empty mapping and a mapping of an unrecognised key.
SettingsRequests ==
    UNION {
        UNION {{k :> Str(t) : t \in Texts[k]} : k \in Keys},
        UNION {UNION {{(k :> Str(GoodText[k])) @@ (j :> Str(t)) : t \in BadTexts[j]}
                      : j \in Keys \ {k}} : k \in Keys},
        {NoErrors, "units" :> Str(T_kg)} }

\* The requests made while the scale is also read.
FewRequests ==
    { [port |-> Str(COM2), baud_rate |-> Str(T_19200), parity |-> Str(T_ODD),
       stop_bits |-> Str(T_2p0), byte_size |-> Str(T_8)] }

-----------------------------------------------------------------------------
(* Specifications *)

CallerIds == {1}     \* one request of app.py is served at a time

\* The state after `scale_reader = SerialScaleReader(port='COM1')`, with the
\* callers `ids` about to make requests and a scale whose answers are at most
\* `longest` bytes.
Start(ids, longest) ==
    /\ serial_reader = InitSerialReader
    /\ wait_time = 0
    /\ comports = << Device1, Device2 >>
    /\ call = NoCall
    /\ pc = [c \in ids |-> "idle"]
    /\ scale_output = [c \in ids |-> << >>]
    /\ result = [c \in ids |-> NoResult]
    /\ cycles = [c \in ids |-> 0]
    /\ wrote = [c \in ids |-> 0]
    /\ line = ClosedLine
    /\ rx = << >>
    /\ pending = << >>
    /\ delivered = << >>
    /\ answer = << >>
    /\ first_poll = [c \in ids |-> "pending"]
    /\ after_timeout = [c \in ids |-> FALSE]
    /\ served = 0
    /\ scale = [longest |-> longest]
    /\ asked = << >>
    /\ update = NoUpdate

Init == Start(CallerIds, MaxResponse)

\* app.py's /read, one request at a time.
AppRead == AllIdle /\ \E c \in Callers : ReadEnter(c)
StepRead ==
    \E c \in Callers : ReadWrite(c) \/ ReadCheck(c) \/ ReadSleep(c) \/ ReadDrain(c)

\* app.py's /update_settings and /get_settings, between reads.
AppUpdateSettings ==
    /\ AllIdle
    /\ \E kwargs \in FewRequests : UpdateAndGetSettings(kwargs)
    /\ UNCHANGED served
AppUpdateSettingsAny ==
    /\ AllIdle
    /\ served < MaxRequests
    /\ served' = served + 1
    /\ \E kwargs \in SettingsRequests : UpdateAndGetSettings(kwargs)
AppGetSettings == AllIdle /\ GetSettings

\* One reader used by one caller at a time.
Next == AppRead \/ StepRead \/ ScaleSend \/ AppUpdateSettings \/ AppGetSettings
Spec == Init /\ [][Next]_vars

\* The same, with the thread that runs read_weight never stopping for good.
SpecLive == Spec /\ WF_vars(StepRead)

\* The settings API alone, with every request of SettingsRequests.
NextSettings == AppUpdateSettingsAny \/ AppGetSettings \/ HotPlug
SpecSettings == Init /\ [][NextSettings]_vars

\* /read alone, one request at a time, on a scale with longer answers.
MaxAnswer == 3      \* the longest answer of the scale in SpecRead
InitRead == Start(CallerIds, MaxAnswer)
NextRead == AppRead \/ StepRead \/ ScaleSend
SpecRead == InitRead /\ [][NextRead]_vars

\* /read as Flask serves it: a thread per request, all on the one reader, and
\* nothing that makes a request wait for another.  Two requests are served.
SharedIds == {1, 2}
InitShared == Start(SharedIds, MaxResponse)
AnyRead == \E c \in Callers : result[c] = NoResult /\ ReadEnter(c)
NextShared == AnyRead \/ StepRead \/ ScaleSend
SpecShared == InitShared /\ [][NextShared]_vars

\* One /read and requests to /update_settings, served at the same time by
\* two threads.
RaceUpdate == \E kwargs \in FewRequests : UpdateBegin(kwargs)
NextRace == AnyRead \/ StepRead \/ ScaleSend \/ RaceUpdate \/ UpdateField \/ UpdateReturn
RaceAnswer == 1     \* the longest answer of the scale in SpecRace
InitRace == Start(CallerIds, RaceAnswer)
SpecRace == InitRace /\ [][NextRace]_vars

-----------------------------------------------------------------------------
(* Properties *)

Updated == call.op = "update_and_get_settings"
Given(k) == k \in DOMAIN call.kwargs /\ Truthy(call.kwargs[k])
Stored(k) == get_settings(serial_reader)[k]

\* The validation rule of a field fails on a text.
Rejects(k, chars, ports) ==
    CASE k = "port" -> Grep(ports, chars) = << >>
      [] k = "baud_rate" -> ~ParseInt(chars).ok
      [] k = "parity" -> ~InOptions(PARITY_OPTIONS, Str(Lower(chars)))
      [] k = "stop_bits" ->
            ~(ParseFloat(chars).ok /\ InOptions(STOP_BITS_OPTIONS, ParseFloat(chars).v))
      [] k = "byte_size" ->
            ~(ParseInt(chars).ok /\ InOptions(BYTE_SIZE_OPTIONS, ParseInt(chars).v))

\* The setting a valid text of a field stands for.
Meant(k, chars) ==
    CASE k = "baud_rate" -> ParseInt(chars).v
      [] k = "parity" -> Lookup(PARITY_OPTIONS, Str(Lower(chars)))
      [] k = "stop_bits" -> Lookup(STOP_BITS_OPTIONS, ParseFloat(chars).v)
      [] k = "byte_size" -> Lookup(BYTE_SIZE_OPTIONS, ParseInt(chars).v)

\* The bytes before the first marker.
BeforeMarker(bytes) ==
    SubSeq(bytes, 1, (CHOOSE i \in 1..Len(bytes) :
                        /\ bytes[i] = end_of_weight_char
                        /\ \A j \in 1..(i - 1) : bytes[j] # end_of_weight_char) - 1)

IsText(bytes) == \A i \in 1..Len(bytes) : Decodes(bytes[i])

\* The sleeps of a call that starts at `elapsed` and never reads the marker.
RECURSIVE PollCycles(_)
PollCycles(elapsed) == IF TimedOut(elapsed) THEN 0 ELSE 1 + PollCycles(Slept(elapsed))

\* C1: whatever calls came before, a read_weight call that opens the device and
\* whose scale answers with text followed by the marker, all of it arrived
\* when the first sleep ends, and that meets no serial fault, returns exactly
\* that text as the weight.
C1_PromptAnswerIsReturned ==
    \A c \in Callers :
        ( /\ pc[c] = "idle"
          /\ wrote[c] = 1
          /\ result[c].cause = NoException
          /\ HasMarker(answer)
          /\ BeforeMarker(answer) # << >>
          /\ IsText(BeforeMarker(answer))
          /\ first_poll[c] # "late" )
        => result[c] = WeightResult(BeforeMarker(answer))

\* C2: after update_settings with a non-empty value that its field's rule
\* rejects, the stored setting of that field is what it was before the call and
\* the returned error map has the field as a key.
C2_RejectedValueReported ==
    Updated =>
        \A k \in Keys :
            (Given(k) /\ Rejects(k, call.kwargs[k].s, call.ports)) =>
                /\ Stored(k) = call.before[k]
                /\ ~call.raised
                /\ k \in DOMAIN call.errors

\* C3: every error entry update_settings returns records as given_value the
\* value the caller passed, unchanged.
C3_GivenValueIsRaw ==
    Updated => \A k \in DOMAIN call.errors : call.errors[k].given_value = call.kwargs[k]

\* C4: after update_settings with a valid baud_rate, parity, stop_bits or
\* byte_size, whatever else the call was given, the stored setting is the value
\* that text stands for and get_settings returns it.
C4_ValidValueApplied ==
    Updated =>
        \A k \in Keys \ {"port"} :
            (Given(k) /\ ~Rejects(k, call.kwargs[k].s, call.ports)) =>
                /\ ~call.raised
                /\ call.settings[k] = Meant(k, call.kwargs[k].s)
                /\ Stored(k) = Meant(k, call.kwargs[k].s)

\* C5: when read_weight has returned the timeout message wait_time is zero, and
\* a call that follows a timed-out call and times out too has slept as often
\* as a call on a new reader does before it times out.
C5_TimeoutResetsWait ==
    \A c \in Callers :
        (pc[c] = "idle" /\ result[c].kind = "timeout") =>
            /\ wait_time = 0
            /\ after_timeout[c] => cycles[c] = PollCycles(0)

C5_Witness ==
    \E c \in Callers :
        /\ pc[c] = "idle" /\ result[c].kind = "timeout"
        /\ after_timeout[c] /\ cycles[c] = PollCycles(0) /\ ~HasMarker(answer)

\* C6: a read_weight call in which the open, the write or a poll met a
\* SerialException has returned 'Error: ' followed by the description of the
\* fault; no exception left the call.
C6_SerialFaultReturnsError ==
    \A c \in Callers :
        (pc[c] = "idle" /\ result[c].cause.type = "SerialException") =>
            /\ result[c].kind = "error"
            /\ result[c].value = Format("Error: {}", result[c].cause.desc)

C6_Witness ==
    \E c \in Callers :
        /\ pc[c] = "idle" /\ result[c].cause = SerialException(ReadFault)
        /\ cycles[c] > 1 /\ result[c].kind = "error"

\* C7: while no read_weight call is in progress the serial device is closed.
C7_ClosedBetweenReads == AllIdle => ~line.open

C7_Witness ==
    \E c \in Callers :
        /\ pc[c] = "idle" /\ result[c].kind = "raised"
        /\ result[c].cause = UnicodeDecodeError /\ ~line.open

\* C8: the parameters in effect on the opened device are the five settings
\* get_settings reports.
C8_OpenedWithStoredSettings ==
    line.open =>
        /\ line.port = Stored("port")
        /\ PyEq(line.baudrate, Stored("baud_rate"))
        /\ line.parity = Stored("parity")
        /\ PyEq(line.stopbits, Stored("stop_bits"))
        /\ PyEq(line.bytesize, Stored("byte_size"))

\* C9: every read_weight call in progress eventually returns.
C9_ReadReturns == \A c \in CallerIds : (pc[c] # "idle") ~> (pc[c] = "idle")

C9_Witness ==
    \E c \in Callers :
        /\ pc[c] = "idle" /\ wrote[c] = 1 /\ answer = << >>
        /\ result[c].kind = "timeout"

\* C10: after update_settings with a port that is not the name of an enumerated
\* device, the port setting is what it was and the error map has a 'port'
\* entry whose message lists the names of the enumerated devices, separated by
\* ', '.
C10_PortMustBeEnumerated ==
    (Updated /\ ~call.raised /\ Given("port")) =>
        \/ \E i \in 1..Len(call.ports) : call.ports[i].device = call.kwargs["port"].s
        \/ /\ Stored("port") = call.before["port"]
           /\ "port" \in DOMAIN call.errors
           /\ call.errors["port"].error =
                Format("Invalid port. Detected ports: {}",
                       Join(CommaSpace, DeviceNames(call.ports)))

OptionValues(options) == {options[i].value : i \in 1..Len(options)}

\* C11: every stored setting is in its valid set: baud_rate a positive integer,
\* parity one of the five parity options, stop_bits one of 1, 1.5 and 2,
\* byte_size one of 5, 6, 7 and 8.
C11_StoredSettingsValid ==
    /\ Stored("baud_rate").t = "int" /\ Stored("baud_rate").n > 0
    /\ Stored("parity") \in OptionValues(PARITY_OPTIONS)
    /\ Stored("stop_bits") \in OptionValues(STOP_BITS_OPTIONS)
    /\ Stored("byte_size") \in OptionValues(BYTE_SIZE_OPTIONS)

\* A recognised key passed with a non-empty text.
Provided(k) == k \in DOMAIN call.kwargs /\ call.kwargs[k].s # << >>

\* C12: update_and_get_settings makes no error entry for, and does not change,
\* a field that is absent or passed empty, and makes no entry for an
\* unrecognised key; a call whose mapping provides no field returns an empty
\* error map and the settings as they were before the call, which are the
\* settings after it.
C12_NotProvidedIsNoOp ==
    Updated =>
        /\ DOMAIN call.errors \subseteq Keys
        /\ \A k \in Keys :
              ~Provided(k) => (k \notin DOMAIN call.errors /\ Stored(k) = call.before[k])
        /\ (\A k \in Keys : ~Provided(k)) =>
              /\ ~call.raised
              /\ call.errors = NoErrors
              /\ call.settings = call.before
              /\ get_settings(serial_reader) = call.before

\* The second of two requests is one that provides no field and holds a key,
\* after a first that changed a setting.
C12_Witness ==
    /\ Updated /\ served = MaxRequests
    /\ call.kwargs # NoErrors
    /\ \A k \in Keys : ~Provided(k)
    /\ call.before # get_settings(InitSerialReader)
    /\ call.settings = call.before

InCall(c) == pc[c] \in {"write", "check", "sleep", "drain"}

\* C13: once wait_time exceeds max_wait_time_seconds, a read_weight call in
\* progress reads no further byte: nothing is appended to its scale_output and
\* it ends neither with a weight nor with a byte that does not decode.
C13_NoReadAfterMaxExceeded ==
    [][ \A c \in Callers :
            (InCall(c) /\ TimedOut(wait_time)) =>
                /\ scale_output'[c] = scale_output[c]
                /\ result'[c].kind \notin {"weight", "raised"} ]_vars

\* C14: a read_weight call sleeps for no more than max_wait_time_seconds in
\* total, and a call that started with wait_time zero and is about to return
\* the timeout message, the scale having sent no marker, has slept
\* max_wait_time_seconds / wait_interval_seconds times.
C14_SleepsAtMostMax ==
    \A c \in Callers :
        /\ cycles[c] * wait_interval_seconds <= max_wait_time_seconds
        /\ ( /\ pc[c] = "check" /\ TimedOut(wait_time)
             /\ wait_time = cycles[c] * wait_interval_seconds
             /\ ~HasMarker(answer) )
           => cycles[c] = max_wait_time_seconds \div wait_interval_seconds

\* C15: a read_weight call that returned a weight returned the bytes that
\* arrived since its open and before the first marker, in the order of their
\* arrival, as text, and had read nothing else: its scale_output is those bytes.
C15_WeightIsBytesBeforeMarker ==
    \A c \in Callers :
        (pc[c] = "idle" /\ result[c].kind = "weight") =>
            /\ HasMarker(delivered)
            /\ result[c] = WeightResult(BeforeMarker(delivered))
            /\ scale_output[c] = BeforeMarker(delivered)

\* A weight of two bytes returned after more than one poll cycle, by a call
\* that follows earlier calls of the reader.
C15_Witness ==
    \E c \in Callers :
        /\ pc[c] = "idle" /\ result[c] = WeightResult(<< "1", "2" >>)
        /\ cycles[c] > 1 /\ wait_time > cycles[c] * wait_interval_seconds

\* C16: wait_time becomes lower only in the timeout branch of read_weight,
\* which sets it to zero; a call that ends with a weight, an 'Error: ' string
\* or a propagated exception leaves wait_time as it is at that moment, and so
\* does every call of the settings API.
C16_OnlyTimeoutResetsWait ==
    [][ /\ (wait_time' < wait_time) =>
              /\ wait_time' = 0
              /\ \E c \in Callers :
                    /\ pc[c] = "check" /\ TimedOut(wait_time)
                    /\ pc'[c] = "idle" /\ result'[c] = TimeoutResult
        /\ \A c \in Callers :
              (InCall(c) /\ pc'[c] = "idle" /\ result'[c].kind # "timeout") =>
                  wait_time' = wait_time
        /\ (call' # call) => (wait_time' = wait_time) ]_vars

\* The settings were updated after a call that ended with a decode fault; the
\* time slept in it and in earlier calls is still in wait_time.
C16_Witness ==
    \E c \in Callers :
        /\ call.op = "update_and_get_settings"
        /\ pc[c] = "idle" /\ result[c].cause = UnicodeDecodeError
        /\ wait_time > cycles[c] * wait_interval_seconds

\* The bytes of the line that are no text on their own.
NoText == Bytes \ (DigitSet \cup {end_of_weight_char})
AllText(bytes) == \A i \in 1..Len(bytes) : bytes[i] \notin NoText

\* C17: a byte that is no valid text never gets into scale_output; a call that
\* returned a weight had only text arrive before the marker; and a call that
\* met the decode fault ended with that exception leaving read_weight, not
\* with a returned string.
C17_DecodeFaultPropagates ==
    \A c \in Callers :
        /\ AllText(scale_output[c])
        /\ (pc[c] = "idle" /\ result[c].kind = "weight") => AllText(BeforeMarker(delivered))
        /\ (pc[c] = "idle" /\ result[c].cause = UnicodeDecodeError) =>
              /\ result[c].kind = "raised"
              /\ result[c].value = Format("UnicodeDecodeError", << >>)

\* The scale sent '1', then 0xE9, then the marker; the call read '1' and ended
\* with the decode fault.
C17_Witness ==
    \E c \in Callers :
        /\ pc[c] = "idle" /\ result[c].kind = "raised"
        /\ delivered = << "1", "xE9", end_of_weight_char >>
        /\ scale_output[c] = << "1" >>

\* C20: a read_weight call writes the read command at most once, has written
\* it once when it comes to a timeout check, a sleep or a read, and, if it
\* wrote the command and met no fault, has made at least one sleep and drain
\* when it returns.
C20_CommandIsPolledFor ==
    \A c \in Callers :
        /\ wrote[c] <= 1
        /\ pc[c] \in {"check", "sleep", "drain"} => wrote[c] = 1
        /\ (pc[c] = "idle" /\ wrote[c] = 1 /\ result[c].cause = NoException) =>
              cycles[c] >= 1

\* Caller c takes a byte from the input buffer in this step: it appends it,
\* returns at it, or fails to decode it.
ReadsByte(c) ==
    /\ pc[c] = "drain" /\ line.open /\ rx # << >>
    /\ \/ scale_output'[c] # scale_output[c]
       \/ pc'[c] = "idle" /\ result'[c].kind \in {"weight", "raised"}

\* C18: a read_weight call that is between its open and its close finds the
\* device open, whatever other calls do, and every byte it takes from the
\* input buffer answers a command that it wrote itself.
C18_ExclusiveAccess ==
    [][ \A c \in Callers :
            /\ InCall(c) => line.open
            /\ ReadsByte(c) => asked[Len(delivered) - Len(rx) + 1] = c ]_vars

\* The update_settings call in progress is past the block of field k.
Passed(k) == update.at = "return" \/ FieldIndex(k) < FieldIndex(update.at)

\* What that call stores in field k: the value its text stands for, or, for
\* a field not provided or rejected, what was there.
Wanted(k) ==
    LET v == Get(update.kwargs, k)
    IN  IF Truthy(v) /\ ~Rejects(k, v.s, update.ports)
        THEN IF k = "port" THEN v ELSE Meant(k, v.s)
        ELSE update.before[k]

\* C19: nothing keeps read_weight from running while update_settings is
\* between two fields: all that time the stored settings are the new values
\* of the fields the update is past and the old values of the others, and a
\* device that is open then runs with just these values of port, parity and
\* byte size.
C19_DeviceFollowsPartialUpdate ==
    update.at # "idle" =>
        /\ \A k \in Keys : Stored(k) = IF Passed(k) THEN Wanted(k) ELSE update.before[k]
        /\ line.open =>
              /\ line.port = serial_reader.port
              /\ line.parity = serial_reader.parity
              /\ line.bytesize = serial_reader.bytesize

\* A read_weight call is about to read a byte from a device that runs on the
\* new port with the new parity and the old byte size, while update_settings
\* has still to assign the byte size.
C19_Witness ==
    \E c \in Callers :
        /\ pc[c] = "drain" /\ line.open /\ rx # << >>
        /\ update.at = "byte_size"
        /\ line.port = Str(COM2) /\ line.port # update.before["port"]
        /\ line.parity = PARITY_ODD /\ line.parity # update.before["parity"]
        /\ line.bytesize = update.before["byte_size"]
        /\ Wanted("byte_size") # update.before["byte_size"]

=============================================================================
